---- MODULE Spec2Model ----
(***************************************************************************)
(* Model of lib/spack/spack/directives.py: the directive registry, the     *)
(* per-package draft that directives mutate while a package class body is  *)
(* executed, and the six directives version, depends_on, extends,          *)
(* provides, patch and variant.                                            *)
(*                                                                         *)
(* A Python dict is a set of <<key, value>> pairs; an attribute of the     *)
(* draft is a record [kind, items] with kind "absent" (no such attribute), *)
(* "dict" or "nondict" (an attribute that is not a dict).  The outcome of  *)
(* a call is a record [type, directive, package]; type "ok" is a normal    *)
(* return, any other type is the class of the exception raised.            *)
(***************************************************************************)
EXTENDS Integers, Sequences, FiniteSets, TLC

\* Number of directive / ensure_dicts calls explored for one draft.
MaxCalls == 3

\* Python None: an argument that was not given.
None == "None"

\* Default patch level (signature of patch).
DefaultLevel == 1

---------------------------------------------------------------------------
\* Python dict operations on a set of <<key, value>> pairs.

Keys(d) == {p[1] : p \in d}

Get(d, k) == (CHOOSE p \in d : p[1] = k)[2]

\* d[k] = v
SetItem(d, k, v) == {p \in d : p[1] # k} \cup {<<k, v>>}

\* d.get(k, default) on a kwargs dict
GetDefault(d, k, default) == IF k \in Keys(d) THEN Get(d, k) ELSE default

\* the dict left by d.pop(k, default)
Pop(d, k) == {p \in d : p[1] # k}

---------------------------------------------------------------------------
\* Attributes of the draft.

Absent == [kind |-> "absent", items |-> {}]
EmptyDict == [kind |-> "dict", items |-> {}]
NonDict == [kind |-> "nondict", items |-> {}]

\* accumulator attribute names, in no particular order
FieldNames == {"versions", "dependencies", "extendees", "provided",
               "patches", "variants"}

\* A Python value given as the dicts argument of the decorator.
PyStr(s) == [type |-> "str", value |-> s]
PyTuple(t) == [type |-> "tuple", value |-> t]
PyList(t) == [type |-> "list", value |-> t]
PyNone == [type |-> "NoneType", value |-> "None"]

\* An element of a list that is no string: the int 5, written by its repr.
PyInt5 == "<int 5>"

\* directive.__init__(self, dicts): self.dicts, a string made a 1-tuple
directive_init(dicts) ==
    IF dicts.type = "str" THEN <<dicts.value>> ELSE dicts.value

\* a check that also wants a non-empty list or tuple of strings
directive_init_raises_unless_names(dicts) ==
    \/ dicts.type \notin {"str", "list", "tuple"}
    \/ /\ dicts.type \in {"list", "tuple"}
       /\ \/ dicts.value = <<>>
          \/ \E k \in DOMAIN dicts.value : dicts.value[k] = PyInt5

\* directive.__init__ raises TypeError: dicts is no string, and
\* type(dicts) not in (list, tuple)
directive_init_raises(dicts) ==
    dicts.type \notin {"str", "list", "tuple"}

\* directives[directive_function.__name__] = self, on the registry reg
directive_call(reg, name, self_dicts) ==
    [n \in DOMAIN reg \cup {name} |-> IF n = name THEN self_dicts ELSE reg[n]]

\* The registry `directives` once the module is imported: the name of each
\* decorated function -> self.dicts of its descriptor.
directives ==
    [version    |-> directive_init(PyStr("versions")),
     depends_on |-> directive_init(PyStr("dependencies")),
     extends    |-> directive_init(PyTuple(<<"extendees", "dependencies">>)),
     provides   |-> directive_init(PyStr("provided")),
     patch      |-> directive_init(PyStr("patches")),
     variant    |-> directive_init(PyStr("variants"))]

DirectiveNames == DOMAIN directives

---------------------------------------------------------------------------
\* Outcomes and exceptions.

Ok == [type |-> "ok", directive |-> None, package |-> None]

\* a TypeError carries neither a directive nor a package
TypeError == [type |-> "TypeError", directive |-> None, package |-> None]

\* spack.error.SpackError raised by directive.ensure_dicts
SpackError == [type |-> "SpackError", directive |-> None, package |-> None]

\* DirectiveError.__init__(self, directive, message): constructing it with
\* any other number of arguments raises TypeError instead.
DirectiveError(args) ==
    IF Len(args) = 2
    THEN [type |-> "DirectiveError", directive |-> args[1], package |-> None]
    ELSE [type |-> "TypeError", directive |-> None, package |-> None]

CircularReferenceError(directive, package) ==
    [DirectiveError(<<directive, "cannot pass itself">>)
        EXCEPT !.type = "CircularReferenceError", !.package = package]

\* isinstance(e, DirectiveError)
IsDirectiveError(e) == e.type \in {"DirectiveError", "CircularReferenceError"}

---------------------------------------------------------------------------
\* The external Spec / Version capability (spack.spec, spack.version).
\* A string handed to the parsers is a sequence of tokens: a package name,
\* or a version constraint "@..." that belongs to the name before it.
\* A Spec is [name, versions]: the versions of `name` that satisfy it.

AllVersions == {"1.0", "2.0", "3.0"}

ConstraintTokens == {"@1.0", "@:2.0", "@2.0:"}

\* the versions a constraint token admits
VersionList(tok) ==
    CASE tok = "@1.0"  -> {"1.0"}
      [] tok = "@:2.0" -> {"1.0", "2.0"}
      [] tok = "@2.0:" -> {"2.0", "3.0"}

\* Python str(name) in the token representation
Str(name) == <<name>>

\* Python None for an argument that would otherwise be a spec string
NoSpec == <<>>

\* spack.spec.parse(string): the list of Specs a string denotes
RECURSIVE parse(_)
parse(string) ==
    IF string = <<>> THEN <<>>
    ELSE IF Len(string) >= 2 /\ string[2] \in ConstraintTokens
         THEN <<[name |-> string[1], versions |-> VersionList(string[2])]>>
                  \o parse(SubSeq(string, 3, Len(string)))
         ELSE <<[name |-> string[1], versions |-> AllVersions]>>
                  \o parse(Tail(string))

\* spack.spec.Spec(string): the single Spec a string denotes
SpecFrom(string) == parse(string)[1]

\* parse_anonymous_spec(spec_like, pkg_name): the package name may be omitted
parse_anonymous_spec(spec_like, pkg_name) ==
    IF spec_like[1] \in ConstraintTokens
    THEN SpecFrom(Str(pkg_name) \o spec_like)
    ELSE SpecFrom(spec_like)

\* Spec.constrain(other, deps=False): narrow self to the intersection
constrain(self, other) ==
    [self EXCEPT !.versions = self.versions \cap other.versions]

\* Version(ver): the components of a version string, separators dropped
Version(ver) == SelectSeq(ver, LAMBDA c : c \notin {".", "_", "-"})

\* Patch(pkg_name, path_or_url, level)
Patch(pkg_name, path_or_url, level) ==
    [pkg_name |-> pkg_name, path_or_url |-> path_or_url, level |-> level]

\* Variant(default, description)
Variant(default, description) ==
    [default |-> default, description |-> description]

---------------------------------------------------------------------------
\* Variant names and descriptions are sequences of characters.

WordChars == {"a", "b", "_"}

\* spack.spec.identifier_re = r'\w[\w-]*': the strings of the grammar
IsIdentifier(name) ==
    /\ name # <<>>
    /\ name[1] \in WordChars
    /\ \A i \in 2..Len(name) : name[i] \in WordChars \cup {"-"}

\* re.match(identifier_re, name): some prefix of name is in the grammar
re_match_identifier(name) ==
    \E n \in 1..Len(name) : IsIdentifier(SubSeq(name, 1, n))

\* str.strip(): leading and trailing blanks removed
RECURSIVE lstrip(_)
lstrip(s) == IF s # <<>> /\ Head(s) = " " THEN lstrip(Tail(s)) ELSE s

RECURSIVE rstrip(_)
rstrip(s) ==
    IF s # <<>> /\ s[Len(s)] = " " THEN rstrip(SubSeq(s, 1, Len(s) - 1)) ELSE s

strip(s) == rstrip(lstrip(s))

\* bool(default) of an integer argument
bool(x) == x # 0

\* truth value of the checksum argument (None and '' are false)
Truthy(x) == x \notin {None, ""}

---------------------------------------------------------------------------
\* A call returns [pkg, out]: the draft it leaves and its outcome.

Return(p, out) == [pkg |-> p, out |-> out]

\* directive.ensure_dicts that tests the attributes but never creates one
RECURSIVE directive_ensure_dicts_no_setattr(_, _)
directive_ensure_dicts_no_setattr(dicts, p) ==
    IF dicts = <<>> THEN Return(p, Ok)
    ELSE IF p[Head(dicts)].kind = "nondict" THEN Return(p, SpackError)
         ELSE directive_ensure_dicts_no_setattr(Tail(dicts), p)

\* ensure_dicts without the isinstance check
RECURSIVE directive_ensure_dicts_no_isinstance(_, _)
directive_ensure_dicts_no_isinstance(dicts, p) ==
    IF dicts = <<>> THEN Return(p, Ok)
    ELSE LET d  == Head(dicts)
             p1 == IF p[d].kind = "absent" THEN [p EXCEPT ![d] = EmptyDict] ELSE p
         IN  directive_ensure_dicts_no_isinstance(Tail(dicts), p1)

\* ensure_dicts without the hasattr check: every dict is set to {}
RECURSIVE directive_ensure_dicts_reset(_, _)
directive_ensure_dicts_reset(dicts, p) ==
    IF dicts = <<>> THEN Return(p, Ok)
    ELSE directive_ensure_dicts_reset(Tail(dicts),
                                      [p EXCEPT ![Head(dicts)] = EmptyDict])

\* directive.ensure_dicts(self, pkg), self.dicts = dicts
RECURSIVE directive_ensure_dicts(_, _)
directive_ensure_dicts(dicts, p) ==
    IF dicts = <<>> THEN Return(p, Ok)
    ELSE LET d  == Head(dicts)
             p1 == IF p[d].kind = "absent" THEN [p EXCEPT ![d] = EmptyDict]
                   ELSE p
         IN  IF p1[d].kind # "dict" THEN Return(p1, SpackError)
             ELSE directive_ensure_dicts(Tail(dicts), p1)

\* version storing the keyword arguments without the checksum
version_without_md5(p, ver, checksum, kwargs) ==
    Return([p EXCEPT !.versions.items = SetItem(@, Version(ver), kwargs)], Ok)

\* version(pkg, ver, checksum=None, **kwargs)
version(p, ver, checksum, kwargs) ==
    LET kw == IF Truthy(checksum) THEN SetItem(kwargs, "md5", checksum)
              ELSE kwargs
    IN  Return([p EXCEPT !.versions.items = SetItem(@, Version(ver), kw)], Ok)

\* _depends_on with a repeated condition replacing the stored constraint
_depends_on_replace(p, spec, when) ==
    LET w         == IF when = NoSpec THEN Str(p.name) ELSE when
        when_spec == parse_anonymous_spec(w, p.name)
        dep_spec  == SpecFrom(spec)
        deps      == p.dependencies.items
        conditions == GetDefault(deps, dep_spec.name, {})
    IN  IF p.name = dep_spec.name
        THEN Return(p, CircularReferenceError("depends_on", p.name))
        ELSE Return([p EXCEPT !.dependencies.items =
                        SetItem(deps, dep_spec.name,
                                SetItem(conditions, when_spec, dep_spec))], Ok)

\* _depends_on without the test for a dependency on the package itself
_depends_on_unchecked(p, spec, when) ==
    LET w         == IF when = NoSpec THEN Str(p.name) ELSE when
        when_spec == parse_anonymous_spec(w, p.name)
        dep_spec  == SpecFrom(spec)
        deps      == p.dependencies.items
        conditions == GetDefault(deps, dep_spec.name, {})
        merged    == IF when_spec \in Keys(conditions)
                     THEN SetItem(conditions, when_spec,
                                  constrain(Get(conditions, when_spec), dep_spec))
                     ELSE SetItem(conditions, when_spec, dep_spec)
    IN  Return([p EXCEPT !.dependencies.items =
                    SetItem(deps, dep_spec.name, merged)], Ok)

\* _depends_on(pkg, spec, when=None)
_depends_on(p, spec, when) ==
    LET w         == IF when = NoSpec THEN Str(p.name) ELSE when
        when_spec == parse_anonymous_spec(w, p.name)
        dep_spec  == SpecFrom(spec)
        deps      == p.dependencies.items
        \* pkg.dependencies.setdefault(dep_spec.name, {})
        conditions == GetDefault(deps, dep_spec.name, {})
        merged    == IF when_spec \in Keys(conditions)
                     THEN SetItem(conditions, when_spec,
                                  constrain(Get(conditions, when_spec), dep_spec))
                     ELSE SetItem(conditions, when_spec, dep_spec)
    IN  IF p.name = dep_spec.name
        THEN Return(p, CircularReferenceError("depends_on", p.name))
        ELSE Return([p EXCEPT !.dependencies.items =
                                  SetItem(deps, dep_spec.name, merged)], Ok)

\* depends_on(pkg, spec, when=None)
depends_on(p, spec, when) == _depends_on(p, spec, when)

\* extends recording the extendee before the dependency is merged
extends_record_first(p, spec, kwargs) ==
    IF p.extendees.items # {}
    THEN Return(p, DirectiveError(<<"Packages can extend at most one other package.">>))
    ELSE LET when == GetDefault(kwargs, "when", Str(p.name))
             p1   == [p EXCEPT !.extendees.items =
                         SetItem(@, spec, <<SpecFrom(spec), Pop(kwargs, "when")>>)]
         IN  _depends_on(p1, spec, when)

\* extends(pkg, spec, **kwargs)
extends(p, spec, kwargs) ==
    IF p.extendees.items # {}
    THEN Return(p, DirectiveError(<<"Packages can extend at most one other package.">>))
    ELSE LET when == GetDefault(kwargs, "when", Str(p.name))
             r    == _depends_on(p, spec, when)
         IN  IF r.out # Ok THEN r
             ELSE Return([r.pkg EXCEPT !.extendees.items =
                              SetItem(@, spec, <<SpecFrom(spec), Pop(kwargs, "when")>>)],
                         Ok)

\* the specs of provides(pkg, *specs), in the order the two loops visit them
RECURSIVE provided_specs(_)
provided_specs(specs) ==
    IF specs = <<>> THEN <<>> ELSE parse(Head(specs)) \o provided_specs(Tail(specs))

\* the loop of provides recording a provided spec before testing its name
RECURSIVE provides_loop_record_first(_, _, _)
provides_loop_record_first(p, todo, provider_spec) ==
    IF todo = <<>> THEN Return(p, Ok)
    ELSE LET provided_spec == Head(todo)
             p1 == [p EXCEPT !.provided.items =
                        SetItem(@, provided_spec, provider_spec)]
         IN  IF p.name = provided_spec.name
             THEN Return(p1, CircularReferenceError("depends_on", p.name))
             ELSE provides_loop_record_first(p1, Tail(todo), provider_spec)

\* the loop with pkg.provided.setdefault(provided_spec, provider_spec)
RECURSIVE provides_loop_keep_first(_, _, _)
provides_loop_keep_first(p, todo, provider_spec) ==
    IF todo = <<>> THEN Return(p, Ok)
    ELSE LET provided_spec == Head(todo)
         IN  IF p.name = provided_spec.name
             THEN Return(p, CircularReferenceError("depends_on", p.name))
             ELSE provides_loop_keep_first(
                      IF provided_spec \in Keys(p.provided.items) THEN p
                      ELSE [p EXCEPT !.provided.items =
                                SetItem(@, provided_spec, provider_spec)],
                      Tail(todo), provider_spec)

\* the loop testing every name before it records anything
RECURSIVE provides_loop_all_or_nothing(_, _, _)
provides_loop_all_or_nothing(p, todo, provider_spec) ==
    IF todo = <<>> THEN Return(p, Ok)
    ELSE IF \E k \in DOMAIN todo : todo[k].name = p.name
         THEN Return(p, CircularReferenceError("depends_on", p.name))
         ELSE provides_loop_all_or_nothing(
                  [p EXCEPT !.provided.items =
                      SetItem(@, Head(todo), provider_spec)],
                  Tail(todo), provider_spec)

\* the loop of _depends_on pasted into provides: it records the provider
\* under pkg.dependencies
RECURSIVE provides_loop_into_dependencies(_, _, _)
provides_loop_into_dependencies(p, todo, provider_spec) ==
    IF todo = <<>> THEN Return(p, Ok)
    ELSE LET provided_spec == Head(todo)
         IN  IF p.name = provided_spec.name
             THEN Return(p, CircularReferenceError("depends_on", p.name))
             ELSE provides_loop_into_dependencies(
                      [p EXCEPT !.dependencies.items =
                          SetItem(@, provided_spec.name,
                                  {<<provider_spec, provided_spec>>})],
                      Tail(todo), provider_spec)

\* the loop body of provides over the remaining provided specs
RECURSIVE provides_loop(_, _, _)
provides_loop(p, todo, provider_spec) ==
    IF todo = <<>> THEN Return(p, Ok)
    ELSE LET provided_spec == Head(todo)
         IN  IF p.name = provided_spec.name
             THEN Return(p, CircularReferenceError("depends_on", p.name))
             ELSE provides_loop(
                      [p EXCEPT !.provided.items =
                                    SetItem(@, provided_spec, provider_spec)],
                      Tail(todo), provider_spec)

\* provides(pkg, *specs, **kwargs)
provides(p, specs, kwargs) ==
    LET spec_string   == GetDefault(kwargs, "when", Str(p.name))
        provider_spec == parse_anonymous_spec(spec_string, p.name)
    IN  provides_loop(p, provided_specs(specs), provider_spec)

\* patch skipping a patch that the condition already lists
patch_deduplicated(p, url_or_filename, level, when) ==
    LET w           == IF when = NoSpec THEN Str(p.name) ELSE when
        when_spec   == parse_anonymous_spec(w, p.name)
        cur_patches == GetDefault(p.patches.items, when_spec, <<>>)
        new         == Patch(p.name, url_or_filename, level)
    IN  IF \E i \in DOMAIN cur_patches : cur_patches[i] = new
        THEN Return(p, Ok)
        ELSE Return([p EXCEPT !.patches.items =
                        SetItem(@, when_spec, Append(cur_patches, new))], Ok)

\* patch(pkg, url_or_filename, level=1, when=None)
patch(p, url_or_filename, level, when) ==
    LET w           == IF when = NoSpec THEN Str(p.name) ELSE when
        when_spec   == parse_anonymous_spec(w, p.name)
        \* pkg.patches.setdefault(when_spec, [])
        cur_patches == GetDefault(p.patches.items, when_spec, <<>>)
    IN  Return([p EXCEPT !.patches.items =
                    SetItem(@, when_spec,
                            Append(cur_patches,
                                   Patch(p.name, url_or_filename, level)))],
               Ok)

\* variant storing the Variant before it looks at the name
variant_store_first(p, name, default, description) ==
    LET p1 == [p EXCEPT !.variants.items =
                  SetItem(@, name, Variant(bool(default), strip(description)))]
    IN  IF ~re_match_identifier(name)
        THEN Return(p1, DirectiveError(<<"Invalid variant name">>))
        ELSE Return(p1, Ok)

\* variant(pkg, name, default=False, description="")
variant(p, name, default, description) ==
    IF ~re_match_identifier(name)
    THEN Return(p, DirectiveError(<<"Invalid variant name">>))
    ELSE Return([p EXCEPT !.variants.items =
                    SetItem(@, name, Variant(bool(default), strip(description)))],
                Ok)

\* the directive function that the decorator wraps
directive_function(d, p, a) ==
    CASE d = "version"    -> version(p, a.ver, a.checksum, a.kwargs)
      [] d = "depends_on" -> depends_on(p, a.spec, a.when)
      [] d = "extends"    -> extends(p, a.spec, a.kwargs)
      [] d = "provides"   -> provides(p, a.specs, a.kwargs)
      [] d = "patch"      -> patch(p, a.url_or_filename, a.level, a.when)
      [] d = "variant"    -> variant(p, a.name, a.default, a.description)

\* wrapped(*args, **kwargs) of directive d, called in module `mod`
wrapped(d, p, mod, a) ==
    LET e == directive_ensure_dicts(directives[d], p)
    IN  IF e.out # Ok THEN e
        ELSE directive_function(d, [e.pkg EXCEPT !.name = mod], a)

---------------------------------------------------------------------------
\* Inputs.

PkgNames == {"mypkg", "foo"}

Vers == {<<"1", ".", "0">>, <<"2", ".", "0">>}
Checksums == {None, "", "abc"}
FetchParams == {{<<"url", "u">>}}

DepStrings == {<<"foo", "@1.0">>, <<"foo", "@:2.0">>}
Whens == {NoSpec, <<"@2.0:">>}

ExtStrings == {<<"foo", "@1.0">>, <<"bar">>}
ExtKwargs == {{}, {<<"when", <<"@2.0:">>>>, <<"ignore", <<"bin">>>>}}

ProvidesSpecs == {<< <<"mpi">>, <<"mypkg">>, <<"blas">> >>, << <<"blas", "foo">> >>}
ProvidesKwargs == {{}, {<<"when", <<"@1.0">>>>}}

Locators == {"fix1.patch", "fix2.patch"}
Levels == {DefaultLevel}

VariantNames == {<<"a", "b">>, <<"b", " ", "a", "!">>, <<"!", "b">>}
Defaults == {2}
Descriptions == {<<" ", "a", " ">>}

RegisterNames == {"version", "extends"}
\* the calls the class bodies of two packages make, one of each directive
\* and a second provides that names both packages
TwoDraftCalls ==
    {[directive |-> "version",
      args |-> [ver |-> <<"1", ".", "0">>, checksum |-> "abc", kwargs |-> {}]],
     [directive |-> "depends_on", args |-> [spec |-> <<"foo", "@1.0">>, when |-> NoSpec]],
     [directive |-> "extends", args |-> [spec |-> <<"bar">>, kwargs |-> {}]],
     [directive |-> "provides",
      args |-> [specs |-> << <<"mpi">>, <<"mypkg">> >>, kwargs |-> {}]],
     [directive |-> "provides",
      args |-> [specs |-> << <<"blas", "foo">> >>, kwargs |-> {<<"when", <<"@1.0">>>>}]],
     [directive |-> "patch",
      args |-> [url_or_filename |-> "fix1.patch", level |-> DefaultLevel, when |-> NoSpec]],
     [directive |-> "variant",
      args |-> [name |-> <<"a", "b">>, default |-> 2, description |-> <<" ", "a", " ">>]]}

DictsArgs == {PyStr("versions"), PyTuple(<<"extendees", "dependencies">>),
              PyList(<<"versions">>), PyTuple(<<>>), PyList(<<>>),
              PyList(<<"versions", PyInt5>>), PyNone}

---------------------------------------------------------------------------
\* State.

VARIABLES
    module,     \* get_calling_module_name(): the package being defined
    pkg,        \* the draft: the attributes of the class body
    prev,       \* the draft before the last call
    history,    \* the calls made so far: [directive, args, out]
    other,      \* a second package: [module, pkg, history]
    registry    \* the module-level dict `directives`: name -> dicts

vars == <<module, pkg, prev, history, other, registry>>

NewDraft ==
    [name |-> None, versions |-> Absent, dependencies |-> Absent,
     extendees |-> Absent, provided |-> Absent, patches |-> Absent,
     variants |-> Absent]

\* the draft of a second package file, not yet executed
OtherDraft(mod) == [module |-> mod, pkg |-> NewDraft, history |-> <<>>]

\* one package file is executed, there is no second class body
Init ==
    /\ module \in PkgNames
    /\ pkg = NewDraft
    /\ prev = NewDraft
    /\ history = <<>>
    /\ other = None
    /\ registry = directives

\* the package class exists once ensure_dicts(pkg) has been called on it
Constructed == \E i \in 1..Len(history) : history[i].directive = "ensure_dicts"

Defining == Len(history) < MaxCalls /\ ~Constructed

\* the effect of one call of directive d with the arguments a
Call(d, a) ==
    LET r == wrapped(d, pkg, module, a)
    IN  /\ pkg' = r.pkg
        /\ prev' = pkg
        /\ history' = Append(history, [directive |-> d, args |-> a, out |-> r.out])
        /\ UNCHANGED <<module, other, registry>>

CallVersion ==
    \E ver \in Vers, checksum \in Checksums, kwargs \in FetchParams :
        /\ Defining
        /\ Call("version", [ver |-> ver, checksum |-> checksum, kwargs |-> kwargs])

CallDependsOn ==
    \E spec \in DepStrings, when \in Whens :
        /\ Defining
        /\ Call("depends_on", [spec |-> spec, when |-> when])

CallExtends ==
    \E spec \in ExtStrings, kwargs \in ExtKwargs :
        /\ Defining
        /\ Call("extends", [spec |-> spec, kwargs |-> kwargs])

CallProvides ==
    \E specs \in ProvidesSpecs, kwargs \in ProvidesKwargs :
        /\ Defining
        /\ Call("provides", [specs |-> specs, kwargs |-> kwargs])

CallPatch ==
    \E url \in Locators, level \in Levels, when \in Whens :
        /\ Defining
        /\ Call("patch", [url_or_filename |-> url, level |-> level, when |-> when])

CallVariant ==
    \E name \in VariantNames, default \in Defaults, description \in Descriptions :
        /\ Defining
        /\ Call("variant", [name |-> name, default |-> default,
                            description |-> description])

\* the class body binds an accumulator name to something that is no dict,
\* before its directives run
AssignNonDict ==
    \E f \in FieldNames :
        /\ history = <<>>
        /\ pkg' = [pkg EXCEPT ![f] = NonDict]
        /\ prev' = pkg
        /\ history' = Append(history, [directive |-> "assign", args |-> None, out |-> Ok])
        /\ UNCHANGED <<module, other, registry>>

\* one descriptor after the other, in the order `order`
RECURSIVE ensure_dicts(_, _)
ensure_dicts(order, p) ==
    IF order = <<>> THEN Return(p, Ok)
    ELSE LET e == directive_ensure_dicts(registry[Head(order)], p)
         IN  IF e.out # Ok THEN e ELSE ensure_dicts(Tail(order), e.pkg)

\* some enumeration of a set of directive names
RECURSIVE SeqOf(_)
SeqOf(S) == IF S = {} THEN <<>>
            ELSE LET x == CHOOSE y \in S : TRUE IN <<x>> \o SeqOf(S \ {x})

\* directives.items() iterates in an unspecified order.  Two orders give
\* the same result unless they differ before the first descriptor that
\* raises, so these orders produce every result an order can produce.
ItemsOrders(p) ==
    LET failing == {d \in DOMAIN registry :
                        directive_ensure_dicts(registry[d], p).out # Ok}
    IN  IF failing = {} THEN {SeqOf(DOMAIN registry)}
        ELSE {SeqOf(S) \o <<d>> : S \in SUBSET (DOMAIN registry \ failing),
                                  d \in failing}

\* ensure_dicts(pkg), called when the package is constructed
EnsureDicts ==
    \E order \in ItemsOrders(pkg) :
        LET r == ensure_dicts(order, pkg)
        IN  /\ Len(history) < MaxCalls
            /\ pkg' = r.pkg
            /\ prev' = pkg
            /\ history' = Append(history, [directive |-> "ensure_dicts",
                                           args |-> None, out |-> r.out])
            /\ UNCHANGED <<module, other, registry>>

\* Decorating a function: @directive(dicts) above `def name`.  __init__
\* may raise; if it does not, __call__ enters the descriptor in `directives`.
Register ==
    \E name \in RegisterNames, dicts \in DictsArgs :
        LET raises == directive_init_raises(dicts)
        IN  /\ Len(history) < MaxCalls
            /\ registry' = IF raises THEN registry
                           ELSE directive_call(registry, name, directive_init(dicts))
            /\ history' = Append(history,
                              [directive |-> "directive",
                               args |-> [name |-> name, dicts |-> dicts],
                               out |-> IF raises THEN TypeError ELSE Ok])
            /\ UNCHANGED <<module, pkg, prev, other>>

Next ==
    \/ CallVersion
    \/ CallDependsOn
    \/ CallExtends
    \/ CallProvides
    \/ CallPatch
    \/ CallVariant
    \/ AssignNonDict
    \/ EnsureDicts

Spec == Init /\ [][Next]_vars

\* Two class bodies executed side by side, no more than MaxCalls calls in all.
TwoDefining == Len(history) + Len(other.history) < MaxCalls

\* a call of wrapped whose pkg is the class body of the wrong package: the
\* call of the second package also acts on the first draft
CallOther_on_shared_locals(d, a) ==
    LET r == wrapped(d, other.pkg, other.module, a)
    IN  /\ other' = [other EXCEPT !.pkg = r.pkg,
                                  !.history = Append(@, [directive |-> d, args |-> a,
                                                         out |-> r.out])]
        /\ pkg' = wrapped(d, pkg, other.module, a).pkg
        /\ UNCHANGED <<module, prev, history, registry>>

\* the effect of one call of directive d in the class body of the second
\* package: pkg = DictWrapper(caller_locals()) is that class body
CallOther(d, a) ==
    LET r == wrapped(d, other.pkg, other.module, a)
    IN  /\ other' = [other EXCEPT !.pkg = r.pkg,
                                  !.history = Append(@, [directive |-> d, args |-> a,
                                                         out |-> r.out])]
        /\ UNCHANGED <<module, pkg, prev, history, registry>>

CallFirst ==
    \E c \in TwoDraftCalls :
        /\ TwoDefining
        /\ Call(c.directive, c.args)

CallSecond ==
    \E c \in TwoDraftCalls :
        /\ TwoDefining
        /\ CallOther(c.directive, c.args)

\* two package files are executed, their class bodies before the first
\* statement
InitTwo ==
    /\ module \in PkgNames
    /\ pkg = NewDraft
    /\ prev = NewDraft
    /\ history = <<>>
    /\ other \in {OtherDraft(mod) : mod \in PkgNames \ {module}}
    /\ registry = directives

NextTwo == CallFirst \/ CallSecond

SpecTwo == InitTwo /\ [][NextTwo]_vars

\* Importing directives.py: the registry starts as `directives = {}` and
\* the decorated definitions fill it.
InitRegister ==
    /\ module \in PkgNames
    /\ pkg = NewDraft
    /\ prev = NewDraft
    /\ history = <<>>
    /\ other = None
    /\ registry = [n \in {} |-> <<>>]

NextRegister == Register

SpecRegister == InitRegister /\ [][NextRegister]_vars

---------------------------------------------------------------------------
\* Reading the history.

Last == history[Len(history)]

Called == history # <<>>

Calls == 1..Len(history)

\* the `when` argument of a depends_on, extends or patch call
WhenOf(h) ==
    IF h.directive = "extends" THEN GetDefault(h.args.kwargs, "when", NoSpec)
    ELSE h.args.when

\* the condition a `when` argument stands for; absent, the draft's own name
Resolve(when) ==
    parse_anonymous_spec(IF when = NoSpec THEN Str(module) ELSE when, module)

\* the calls that merged a dependency on `dep` under condition c
MergeCalls(dep, c) ==
    {i \in Calls :
        /\ history[i].directive \in {"depends_on", "extends"}
        /\ history[i].out = Ok
        /\ SpecFrom(history[i].args.spec).name = dep
        /\ Resolve(WhenOf(history[i])) = c}

\* the conditions under which a dependency on `dep` was declared
DeclaredConditions(dep) ==
    {Resolve(WhenOf(history[i])) :
        i \in {j \in Calls : /\ history[j].directive \in {"depends_on", "extends"}
                             /\ history[j].out = Ok
                             /\ SpecFrom(history[j].args.spec).name = dep}}

\* the call names the package being defined as dependency or provided spec
NamesSelf(h) ==
    \/ /\ h.directive \in {"depends_on", "extends"}
       /\ SpecFrom(h.args.spec).name = module
    \/ /\ h.directive = "provides"
       /\ \E k \in DOMAIN provided_specs(h.args.specs) :
              provided_specs(h.args.specs)[k].name = module

\* an extends call succeeded before call i
ExtendedBefore(i) ==
    \E j \in 1..(i - 1) : history[j].directive = "extends" /\ history[j].out = Ok

---------------------------------------------------------------------------
\* C1: for the depends_on (and extends) calls that declared one dependency,
\* the condition keys of dependencies[depName] are exactly the distinct
\* resolved conditions used, each once, and the constraint stored under a
\* condition is the intersection of all constraints declared under it.
C1_MergeIsIntersection ==
    LET deps == pkg.dependencies.items
    IN  /\ Cardinality(Keys(deps)) = Cardinality(deps)
        /\ \A dep \in Keys(deps) :
              LET conditions == Get(deps, dep)
              IN  /\ Keys(conditions) = DeclaredConditions(dep)
                  /\ Cardinality(Keys(conditions)) = Cardinality(conditions)
                  /\ \A c \in Keys(conditions) :
                        /\ Get(conditions, c).name = dep
                        /\ Get(conditions, c).versions =
                              {v \in AllVersions :
                                  \A i \in MergeCalls(dep, c) :
                                      v \in SpecFrom(history[i].args.spec).versions}

\* a dependency declared twice under one condition with different
\* constraints and once under another condition
C1_Witness ==
    \E dep \in Keys(pkg.dependencies.items) :
        \E c1 \in DeclaredConditions(dep), c2 \in DeclaredConditions(dep) :
            /\ c1 # c2
            /\ \E i \in MergeCalls(dep, c1), j \in MergeCalls(dep, c1) :
                  /\ i < j
                  /\ history[i].args.spec # history[j].args.spec
                  /\ history[i].directive = "depends_on"
                  /\ history[j].directive = "depends_on"

\* C2 (as amended): a depends_on, extends or provides call that names the
\* package itself and passes the bootstrap of its fields fails with
\* CircularReferenceError carrying the package name, except an extends call
\* made after an extends call succeeded.
C2_SelfReferenceFails ==
    \A i \in Calls :
        ( /\ NamesSelf(history[i])
          /\ history[i].out # SpackError
          /\ ~(history[i].directive = "extends" /\ ExtendedBefore(i)) )
        => /\ history[i].out.type = "CircularReferenceError"
           /\ IsDirectiveError(history[i].out)
           /\ history[i].out.package = module

\* each of the three directives has been called naming the package itself
C2_Witness ==
    /\ Len(history) = 3
    /\ \A d \in {"depends_on", "extends", "provides"} :
          \E i \in Calls : /\ history[i].directive = d
                            /\ NamesSelf(history[i])
                            /\ history[i].out.type = "CircularReferenceError"

\* C2 (as stated): every depends_on, extends or provides call that names
\* the package itself fails with the self-reference error, whatever came
\* before it.
C2_Original ==
    \A i \in Calls :
        NamesSelf(history[i])
        => /\ history[i].out.type = "CircularReferenceError"
           /\ history[i].out.package = module

\* C3: no key of dependencies is the draft's own name and no key of
\* provided is a spec of that name, after every call, failed ones included.
C3_NoSelfKeys ==
    /\ \A dep \in Keys(pkg.dependencies.items) : dep # module
    /\ \A s \in Keys(pkg.provided.items) : s.name # module

\* a provides call failed on the package's own name after recording an
\* earlier spec, on a draft that has dependencies
C3_Witness ==
    /\ Called
    /\ Last.directive = "provides"
    /\ Last.out.type = "CircularReferenceError"
    /\ pkg.provided.items # {}
    /\ pkg.dependencies.items # {}

\* C4: once an extends call has succeeded, every later extends call fails
\* with the multiple-extension error, a DirectiveError naming the directive.
C4_Original ==
    \A i \in Calls :
        (history[i].directive = "extends" /\ ExtendedBefore(i))
        => /\ history[i].out.type = "DirectiveError"
           /\ history[i].out.directive = "extends"

\* C5: extendees has at most one entry, and a rejected extends call adds no
\* entry to extendees and none to dependencies.
C5_AtMostOneExtendee ==
    /\ Cardinality(Keys(pkg.extendees.items)) <= 1
    /\ Cardinality(pkg.extendees.items) <= 1
    /\ (Called /\ Last.directive = "extends" /\ Last.out # Ok)
       => /\ pkg.extendees.items = prev.extendees.items
          /\ pkg.dependencies.items = prev.dependencies.items

\* an extends call was rejected on a draft that already extends a package
C5_Witness ==
    /\ Called
    /\ Last.directive = "extends"
    /\ Last.out # Ok
    /\ Cardinality(pkg.extendees.items) = 1
    /\ pkg.dependencies.items # {}
    /\ Last.args.spec \notin Keys(pkg.extendees.items)

\* C6: every key of variants matches the identifier grammar as a whole; a
\* variant call with a name outside the grammar fails and writes nothing.
C6_Original ==
    /\ \A name \in Keys(pkg.variants.items) : IsIdentifier(name)
    /\ (Called /\ Last.directive = "variant" /\ ~IsIdentifier(Last.args.name))
       => /\ Last.out # Ok
          /\ pkg.variants.items = prev.variants.items

\* C7: after a successful extends, extendees has exactly one entry, keyed by
\* the dependency name of the spec (the key used in dependencies), with the
\* value (constraint, extra parameters without `when`).
C7_Original ==
    (Called /\ Last.directive = "extends" /\ Last.out = Ok)
    => LET dep_spec == SpecFrom(Last.args.spec)
       IN  /\ dep_spec.name \in Keys(pkg.dependencies.items)
           /\ pkg.extendees.items =
                 {<<Str(dep_spec.name), <<dep_spec, Pop(Last.args.kwargs, "when")>>>>}

\* the accumulator fields a directive declares
DeclaredFields(d) == {directives[d][k] : k \in DOMAIN directives[d]}

\* C8 (as amended): after a directive call that passes the bootstrap, the
\* fields declared by that directive exist as mappings; once
\* ensure_dicts(pkg) has completed, the fields declared by every registered
\* directive exist as mappings, invoked or not.
C8_FieldsExist ==
    /\ (Called /\ Last.directive \in DirectiveNames /\ Last.out # SpackError)
       => \A f \in DeclaredFields(Last.directive) : pkg[f].kind = "dict"
    /\ (\E i \in Calls : /\ history[i].directive = "ensure_dicts"
                         /\ history[i].out = Ok)
       => \A d \in DirectiveNames :
              \A f \in DeclaredFields(d) : pkg[f].kind = "dict"

\* ensure_dicts completed on a draft on which only version was called
C8_Witness ==
    /\ Len(history) = 3
    /\ history[1].directive = "version"
    /\ history[2].directive = "version"
    /\ Last.directive = "ensure_dicts"
    /\ Last.out = Ok
    /\ prev.patches.kind = "absent"
    /\ pkg.patches = EmptyDict

\* C8 (as stated): after every directive call every accumulator field a
\* registered directive declares exists on the draft as a mapping.
C8_Original ==
    (Called /\ Last.directive \in DirectiveNames)
    => \A d \in DirectiveNames :
           \A f \in DeclaredFields(d) : pkg[f].kind = "dict"

\* the last successful version call for version v
LastVersionCall(v) ==
    LET is == {i \in Calls : /\ history[i].directive = "version"
                             /\ history[i].out = Ok
                             /\ Version(history[i].args.ver) = v}
    IN  CHOOSE i \in is : \A j \in is : j <= i

\* the versions declared by successful version calls
DeclaredVersions ==
    {Version(history[i].args.ver) :
        i \in {j \in Calls : history[j].directive = "version" /\ history[j].out = Ok}}

\* C9 (as amended): the record stored for a version is that of the last
\* version call for it; if that call gave a non-empty checksum the record
\* holds md5 = checksum together with the other fetch parameters, and if
\* it gave an empty checksum or none the record is the fetch parameters.
C9_ChecksumIsMd5 ==
    /\ Keys(pkg.versions.items) = DeclaredVersions
    /\ Cardinality(pkg.versions.items) = Cardinality(DeclaredVersions)
    /\ \A v \in Keys(pkg.versions.items) :
          LET a      == history[LastVersionCall(v)].args
              record == Get(pkg.versions.items, v)
          IN  IF a.checksum \notin {None, ""}
              THEN /\ <<"md5", a.checksum>> \in record
                   /\ Cardinality({x \in record : x[1] = "md5"}) = 1
                   /\ {x \in record : x[1] # "md5"} = {x \in a.kwargs : x[1] # "md5"}
              ELSE record = a.kwargs

\* a version declared without checksum and declared again with one
C9_Witness ==
    \E i \in Calls, j \in Calls :
        /\ i < j
        /\ history[i].directive = "version"
        /\ history[j].directive = "version"
        /\ Version(history[i].args.ver) = Version(history[j].args.ver)
        /\ history[i].args.checksum = None
        /\ history[j].args.checksum = "abc"
        /\ LastVersionCall(Version(history[j].args.ver)) = j

\* C9 (as stated): for every version call in which a checksum is given, the
\* stored record holds md5 equal to that checksum with the other fetch
\* parameters.
C9_Original ==
    (Called /\ Last.directive = "version" /\ Last.out = Ok
        /\ Last.args.checksum # None)
    => LET record == Get(pkg.versions.items, Version(Last.args.ver))
       IN  /\ <<"md5", Last.args.checksum>> \in record
           /\ Last.args.kwargs \subseteq record

\* the patches declared under condition c, in declaration order
DeclaredPatches(c) ==
    LET calls == SelectSeq(history,
                     LAMBDA h : /\ h.directive = "patch"
                                /\ h.out = Ok
                                /\ Resolve(h.args.when) = c)
    IN  [i \in 1..Len(calls) |->
            [pkg_name |-> module,
             path_or_url |-> calls[i].args.url_or_filename,
             level |-> calls[i].args.level]]

\* the conditions under which a patch was declared
PatchConditions ==
    {Resolve(history[i].args.when) :
        i \in {j \in Calls : history[j].directive = "patch" /\ history[j].out = Ok}}

\* C10: patches[c] is exactly the sequence of patches declared under the
\* resolved condition c, in declaration order, duplicates kept.
C10_PatchesInOrder ==
    /\ Keys(pkg.patches.items) = PatchConditions
    /\ Cardinality(pkg.patches.items) = Cardinality(PatchConditions)
    /\ \A c \in Keys(pkg.patches.items) :
          Get(pkg.patches.items, c) = DeclaredPatches(c)

\* the same patch declared twice, then another one, with no `when`
C10_Witness ==
    /\ Len(history) = 3
    /\ \A i \in Calls : history[i].directive = "patch" /\ history[i].args.when = NoSpec
    /\ history[1].args.url_or_filename = history[2].args.url_or_filename
    /\ history[3].args.url_or_filename # history[2].args.url_or_filename
    /\ Len(Get(pkg.patches.items, Resolve(NoSpec))) = 3

---------------------------------------------------------------------------
\* the provided specs a provides call recorded: the ones before the first
\* that names the package being defined, none if the bootstrap failed
Recorded(h) ==
    LET specs == provided_specs(h.args.specs)
        stop  == {k \in DOMAIN specs : specs[k].name = module}
    IN  IF h.out = SpackError THEN {}
        ELSE {specs[k] : k \in {j \in DOMAIN specs : \A i \in stop : j < i}}

\* the provides calls that recorded the provided spec s
ProvidesCalls(s) ==
    {i \in Calls : /\ history[i].directive = "provides"
                   /\ s \in Recorded(history[i])}

\* the last of a non-empty set of calls
LastOf(S) == CHOOSE i \in S : \A j \in S : j <= i

\* the provider condition a provides call states
ProviderCondition(h) == Resolve(GetDefault(h.args.kwargs, "when", NoSpec))

\* C11: provided holds one entry for each provided spec a provides call
\* recorded, and its value is the provider condition of the last provides
\* call that recorded it (the package's own name when `when` is absent): a
\* later call overwrites the condition, conditions are never merged.
C11_LastProvidesWins ==
    LET prov == pkg.provided.items
    IN  /\ Cardinality(Keys(prov)) = Cardinality(prov)
        /\ Keys(prov) = UNION {Recorded(history[i]) :
                                  i \in {j \in Calls : history[j].directive = "provides"}}
        /\ \A s \in Keys(prov) :
              Get(prov, s) = ProviderCondition(history[LastOf(ProvidesCalls(s))])

\* two successful provides calls named one provided spec under different
\* conditions, and the later condition is the one stored
C11_Witness ==
    \E s \in Keys(pkg.provided.items) :
        \E i, j \in ProvidesCalls(s) :
            /\ i < j
            /\ history[i].out = Ok /\ history[j].out = Ok
            /\ ProviderCondition(history[i]) # ProviderCondition(history[j])
            /\ j = LastOf(ProvidesCalls(s))
            /\ Get(pkg.provided.items, s) = ProviderCondition(history[j])

---------------------------------------------------------------------------
\* C12: the error a directive raises when the package names itself
\* identifies the directive that was called (provides, extends or
\* depends_on) and the package being defined.
C12_Original ==
    \A i \in Calls :
        history[i].out.type = "CircularReferenceError" =>
            /\ history[i].out.directive = history[i].directive
            /\ history[i].out.package = module

---------------------------------------------------------------------------
\* Reading the registrations.

Registrations == {i \in Calls : history[i].directive = "directive"}

\* the registrations of `name` that did not raise
Registered(name) ==
    {i \in Registrations : history[i].args.name = name /\ history[i].out = Ok}

\* dicts is a single field name, or a non-empty list or tuple of strings
IsFieldNames(dicts) ==
    \/ dicts.type = "str"
    \/ /\ dicts.type \in {"list", "tuple"}
       /\ dicts.value # <<>>
       /\ \A k \in DOMAIN dicts.value : dicts.value[k] # PyInt5

\* C13 as stated: a registration fails unless dicts is a single field name
\* or a non-empty list or tuple of field-name strings, and what the registry
\* holds was registered with such an argument.
C13_Original ==
    /\ \A i \in Registrations :
          ~IsFieldNames(history[i].args.dicts) => history[i].out # Ok
    /\ \A name \in DOMAIN registry :
          \E i \in Registered(name) : IsFieldNames(history[i].args.dicts)

\* C13: a registration fails, with a TypeError, exactly when dicts is neither
\* a string nor a list nor a tuple; a failed registration adds nothing, and
\* the registry holds under each name the dicts of the last registration of
\* it that did not fail: a string as a 1-tuple, a list or tuple as given,
\* empty or with non-string elements included.
C13_RegisterChecksType ==
    /\ \A i \in Registrations :
          LET dicts == history[i].args.dicts
          IN  IF dicts.type \in {"str", "list", "tuple"}
              THEN history[i].out = Ok
              ELSE history[i].out = TypeError
    /\ DOMAIN registry = {name \in RegisterNames : Registered(name) # {}}
    /\ \A name \in DOMAIN registry :
          LET dicts == history[LastOf(Registered(name))].args.dicts
          IN  registry[name] = IF dicts.type = "str" THEN <<dicts.value>>
                               ELSE dicts.value

\* an empty tuple and a list with a non-string element were registered, and
\* a registration with None failed and left the registry as it was
C13_Witness ==
    /\ Len(history) = 3
    /\ history[1].args.dicts = PyTuple(<<>>) /\ history[1].out = Ok
    /\ history[2].args.dicts = PyNone /\ history[2].out = TypeError
    /\ history[3].args.dicts = PyList(<<"versions", PyInt5>>)
    /\ history[3].args.name # history[1].args.name
    /\ registry[history[1].args.name] = <<>>
    /\ registry[history[3].args.name] = <<"versions", PyInt5>>

---------------------------------------------------------------------------
\* the last call was a directive, and one of the fields its descriptor
\* declares was bound to something that is no dict
CalledOnNonDict ==
    /\ Called
    /\ Last.directive \in DirectiveNames
    /\ \E f \in DeclaredFields(Last.directive) : prev[f].kind = "nondict"

\* C14: a directive called on a draft where one of its required fields is
\* present but no mapping fails with the configuration error SpackError,
\* which is no DirectiveError; its body is not executed (the name is not
\* set, no entry changes), and every non-mapping field is left as it was.
C14_NonMappingFieldFails ==
    CalledOnNonDict =>
        /\ Last.out = SpackError
        /\ ~IsDirectiveError(Last.out)
        /\ pkg.name = prev.name
        /\ \A f \in FieldNames : pkg[f].items = prev[f].items
        /\ \A f \in FieldNames : prev[f].kind = "nondict" => pkg[f] = prev[f]

\* extends was called after a version call, with dependencies bound to a
\* non-dict: it failed, and left the version entry and the non-dict alone
C14_Witness ==
    /\ CalledOnNonDict
    /\ Len(history) = 3
    /\ Last.directive = "extends"
    /\ Last.out = SpackError
    /\ pkg.dependencies = NonDict
    /\ pkg.versions.items # {}

---------------------------------------------------------------------------
\* every accumulator field of the draft p is present and a dict
AllFieldsDicts(p) == \A f \in FieldNames : p[f].kind = "dict"

\* the last two calls were ensure_dicts(pkg), and the first did not fail
EnsuredTwice ==
    /\ Len(history) >= 2
    /\ Last.directive = "ensure_dicts"
    /\ history[Len(history) - 1].directive = "ensure_dicts"
    /\ history[Len(history) - 1].out = Ok

\* C15: ensure_dicts(pkg) on a draft whose fields are all dicts changes
\* nothing and does not fail; applied a second time it gives the draft it
\* gave the first time; it changes no entry at all, and the bootstrap of a
\* directive call drops no key that an earlier call wrote.
C15_EnsureDictsIdempotent ==
    Called =>
        /\ (Last.directive = "ensure_dicts" /\ AllFieldsDicts(prev)) =>
               (pkg = prev /\ Last.out = Ok)
        /\ EnsuredTwice => pkg = prev
        /\ Last.directive = "ensure_dicts" =>
               \A f \in FieldNames : pkg[f].items = prev[f].items
        /\ Last.directive \in DirectiveNames =>
               \A f \in FieldNames : Keys(prev[f].items) \subseteq Keys(pkg[f].items)

\* a directive wrote an entry, then ensure_dicts(pkg) ran twice: the second
\* run changed nothing and the entry is still there
C15_Witness ==
    /\ Len(history) = 3
    /\ history[1].directive \in DirectiveNames
    /\ EnsuredTwice
    /\ AllFieldsDicts(prev)
    /\ pkg = prev
    /\ \E f \in FieldNames : pkg[f].items # {}

---------------------------------------------------------------------------
\* the last call was provides, and it failed at a spec naming the package
ProvidesFailed ==
    /\ Called
    /\ Last.directive = "provides"
    /\ Last.out.type = "CircularReferenceError"

\* the position of the first provided spec that names the package
FirstSelf(specs) ==
    CHOOSE k \in DOMAIN specs :
        /\ specs[k].name = module
        /\ \A j \in 1..(k - 1) : specs[j].name # module

\* C16: when the k-th provided spec of a provides call names the package
\* being defined, the call fails there: the k-1 specs before it are recorded
\* under the call's condition (replacing the conditions they had), every
\* other entry of provided is what it was before the call, so that later
\* specs are not recorded and entries of earlier calls are not rolled back.
C16_ProvidesStopsAtSelf ==
    ProvidesFailed =>
        LET specs   == provided_specs(Last.args.specs)
            earlier == {specs[j] : j \in 1..(FirstSelf(specs) - 1)}
            before  == prev.provided.items
            after   == pkg.provided.items
        IN  /\ \A s \in earlier : <<s, ProviderCondition(Last)>> \in after
            /\ Keys(after) = Keys(before) \cup earlier
            /\ Cardinality(Keys(after)) = Cardinality(after)
            /\ \A e \in before : e[1] \notin earlier => e \in after
            /\ \A f \in FieldNames \ {"provided"} : pkg[f] = prev[f]

\* a provides call failed at its second spec: the first spec had a
\* condition from an earlier call and got the new one, the third spec, after
\* the failing one, kept the other condition an earlier call gave it
C16_Witness ==
    /\ ProvidesFailed
    /\ LET specs == provided_specs(Last.args.specs)
           k     == FirstSelf(specs)
       IN  /\ k = 2 /\ Len(specs) = 3
           /\ specs[1] \in Keys(prev.provided.items)
           /\ Get(prev.provided.items, specs[1]) # ProviderCondition(Last)
           /\ Get(pkg.provided.items, specs[1]) = ProviderCondition(Last)
           /\ specs[3] \in Keys(prev.provided.items)
           /\ Get(pkg.provided.items, specs[3]) # ProviderCondition(Last)
           /\ Get(pkg.provided.items, specs[3]) = Get(prev.provided.items, specs[3])

---------------------------------------------------------------------------
\* the draft a class body in module `mod` has after the calls of hist, made
\* with no other package around
RECURSIVE Alone(_, _)
Alone(mod, hist) ==
    IF hist = <<>> THEN NewDraft
    ELSE LET h == hist[Len(hist)]
         IN  wrapped(h.directive, Alone(mod, SubSeq(hist, 1, Len(hist) - 1)),
                     mod, h.args).pkg

---------------------------------------------------------------------------
\* the last call was a depends_on, extends or variant call that failed
Rejected ==
    /\ Called
    /\ Last.directive \in {"depends_on", "extends", "variant"}
    /\ Last.out # Ok

\* C18: a depends_on, extends or variant call that fails adds, removes and
\* changes no entry of any accumulator field; a field differs after the call
\* only by having been created as an empty mapping, and only if it was
\* missing and is a field the directive's descriptor declares.
C18_RejectedCallIsAtomic ==
    Rejected =>
        \A f \in FieldNames :
            /\ pkg[f].items = prev[f].items
            /\ pkg[f] # prev[f] =>
                  /\ prev[f] = Absent
                  /\ pkg[f] = EmptyDict
                  /\ f \in DeclaredFields(Last.directive)

\* after an extends call that succeeded, a second extends call and a variant
\* call with an invalid name were rejected: the variant call created the
\* missing field variants, and the extendee is still recorded
C18_Witness ==
    /\ Rejected
    /\ Len(history) = 3
    /\ history[2].directive = "extends" /\ history[2].out # Ok
    /\ Last.directive = "variant"
    /\ prev.variants = Absent /\ pkg.variants = EmptyDict
    /\ pkg.extendees.items # {}
    /\ pkg.dependencies.items # {}

---------------------------------------------------------------------------
\* the accumulator fields the body of a directive writes entries to
OwnFields(d) ==
    CASE d = "version"    -> {"versions"}
      [] d = "depends_on" -> {"dependencies"}
      [] d = "extends"    -> {"dependencies", "extendees"}
      [] d = "provides"   -> {"provided"}
      [] d = "patch"      -> {"patches"}
      [] d = "variant"    -> {"variants"}

\* the last call was a call of a directive
DirectiveCalled == Called /\ Last.directive \in DirectiveNames

\* C19 as stated: a directive call leaves the entries of every accumulator
\* field that is not its own, and the name of the draft, as they were before
\* the call.
C19_Original ==
    DirectiveCalled =>
        /\ \A f \in FieldNames \ OwnFields(Last.directive) :
              pkg[f].items = prev[f].items
        /\ pkg.name = prev.name

\* C19: a directive call leaves the entries of every accumulator field that
\* is not its own as they were before the call; the name of the draft is
\* unset or the name of the package being defined, a call that passes the
\* field bootstrap leaves it the name of the package, setting it if it was
\* unset, and a call that fails in the bootstrap leaves it as it was.
C19_FrameOfDirectives ==
    DirectiveCalled =>
        /\ \A f \in FieldNames \ OwnFields(Last.directive) :
              pkg[f].items = prev[f].items
        /\ prev.name \in {None, module}
        /\ pkg.name = IF Last.out = SpackError THEN prev.name ELSE module

\* a third directive call, of another directive than the two before it,
\* found their entries and the name already set, and left them as they were
C19_Witness ==
    /\ DirectiveCalled
    /\ Len(history) = 3
    /\ Last.out = Ok
    /\ \E f \in FieldNames \ OwnFields(Last.directive) :
           \E g \in FieldNames \ (OwnFields(Last.directive) \cup {f}) :
               pkg[f].items # {} /\ pkg[g].items # {}
    /\ \E f \in OwnFields(Last.directive) : pkg[f].items # prev[f].items
    /\ prev.name = module /\ pkg.name = module

====
